---- MODULE Spec2Model ----
(***************************************************************************)
(* A model of the expression tree of src/src/tree.ts (lines 1-412): the    *)
(* Cons pair node, the sentinel nil, the construction functions and the    *)
(* accessors layered on them.                                              *)
(*                                                                         *)
(* The heap is the sequence of all Cons objects allocated so far; a handle *)
(* (a value of type U | undefined) is an integer: Undef is undefined, a    *)
(* negative number is one of the Atom objects of the test fixture, and a   *)
(* positive number is the address of a Cons object in the heap.  Two       *)
(* handles are the same reference exactly when they are the same integer.  *)
(* An operation that can throw returns Ok(v) or Thrown(msg).  its is the   *)
(* sequence of the generator objects made by Cons[Symbol.iterator].        *)
(***************************************************************************)
EXTENDS Integers, Sequences, FiniteSets, TLC

VARIABLES heap, ret, its

vars == <<heap, ret, its>>

\* ---------------------------------------------------------------- bounds

\* Under Spec the heap holds at most MaxNodes Cons objects, nil included.
MaxNodes == 3

\* Under SpecList the heap holds at most MaxListNodes Cons objects, nil
\* included.
MaxListNodes == 4

\* items_to_cons is called with at most MaxItems items.
MaxItems == 3

\* item(index) is examined for indexes -1 .. MaxIndex.
MaxIndex == 3

\* Under SpecIter the heap holds at most MaxIterNodes Cons objects, nil
\* included, and at most MaxIters generators are created.
MaxIterNodes == 3

MaxIters == 2

\* ---------------------------------------------------------------- handles

\* void 0, an absent slot or argument.
Undef == 0

\* The address of the module constant nil, the first Cons ever allocated.
NilAddr == 1

\* The Atom objects of the test fixture: two distinct atoms of value "foo"
\* and one of value "bar".
Foo == -1
Foo2 == -2
Bar == -3

Atoms == {Foo, Foo2, Bar}

AtomValue(a) == IF a = Bar THEN "bar" ELSE "foo"

\* The addresses of the Cons objects of heap h.
Nodes(h) == 1..Len(h)

\* Every value of type U in heap h.
Handles(h) == Atoms \cup Nodes(h)

\* The pos / end pairs given to the constructors.
PosEnds == {<<Undef, Undef>>, <<23, 26>>}

\* ---------------------------------------------------------------- results

Ok(v) == [ok |-> TRUE, v |-> v]

Thrown(msg) == [ok |-> FALSE, msg |-> msg]

IndexMsg == "index out of bounds."

TailMsg == "tail property is not allowed for the empty list."

\* new Error() without a message.
NoMsg == ""

\* A method call on undefined.
TypeErrorMsg == "TypeError"

\* ---------------------------------------------------------------- Cons

\* new Cons(car, cdr, pos, end): the object the constructor creates.
NewNode(car, cdr, pos, end) == [car |-> car, cdr |-> cdr, pos |-> pos, end |-> end]

\* x instanceof Cons
InstanceOfCons(h, x) == x \in Nodes(h)

\* isNil as it would be if a node whose head is an empty list were empty
\* too.
isNil_empty_head(h, p) ==
    IF h[p].car = Undef THEN TRUE
    ELSE IF h[p].car \in Nodes(h) /\ h[h[p].car].car = Undef THEN TRUE
    ELSE FALSE

\* Cons.isNil()
isNil(h, p) == IF h[p].car # Undef THEN FALSE ELSE TRUE

\* isCons as it would be if every Cons object answered true.
isCons_instance(h, p) == TRUE

\* Cons.isCons()
isCons(h, p) == IF h[p].car # Undef THEN TRUE ELSE FALSE

\* get Cons.name
name(h, p) == IF h[p].car # Undef THEN "Cons" ELSE "Nil"

\* get Cons.car
car(h, p) == IF h[p].car # Undef THEN h[p].car ELSE NilAddr

\* cdr as it would be without the instanceof check: any stored value is
\* returned.
cdr_unchecked(h, p) == IF h[p].cdr # Undef THEN Ok(h[p].cdr) ELSE Ok(NilAddr)

\* get Cons.cdr
cdr(h, p) ==
    IF h[p].cdr # Undef
    THEN IF InstanceOfCons(h, h[p].cdr) THEN Ok(h[p].cdr) ELSE Thrown(NoMsg)
    ELSE Ok(NilAddr)

\* get Cons.argList
argList(h, p) == cdr(h, p)

\* get Cons.head
head(h, p) == car(h, p)

\* U.isNil() of any handle: Atom.isNil() is false, undefined has no method.
U_isNil(h, x) ==
    IF x = Undef THEN Thrown(TypeErrorMsg)
    ELSE IF x \in Atoms THEN Ok(FALSE)
    ELSE Ok(isNil(h, x))

\* is_cons(expr)
is_cons(h, x) ==
    IF x = Undef THEN FALSE
    ELSE IF InstanceOfCons(h, x) THEN ~isNil(h, x)
    ELSE FALSE

\* is_nil(expr)
is_nil(h, x) == U_isNil(h, x)

\* is_atom(expr)
is_atom(h, x) ==
    IF is_cons(h, x) THEN Ok(FALSE)
    ELSE LET n == is_nil(h, x)
         IN  IF ~n.ok THEN n
             ELSE IF n.v THEN Ok(FALSE)
             ELSE Ok(TRUE)

\* Atom.equals(other)
AtomEquals(a, other) ==
    IF other = a THEN TRUE
    ELSE IF other \in Atoms THEN AtomValue(a) = AtomValue(other)
    ELSE FALSE

RECURSIVE equals(_, _, _)
RECURSIVE equal_cons_cons(_, _, _)

\* Cons.equals as it would be with only the identity and is_cons tests: an
\* empty pair node equals nothing but itself.
ConsEquals_identity_only(h, p, other) ==
    IF p = other THEN Ok(TRUE)
    ELSE IF is_cons(h, other) THEN equal_cons_cons(h, p, other)
    ELSE Ok(FALSE)

\* Cons.equals as it would be if an empty argument were always accepted.
ConsEquals_nil_accepts(h, p, other) ==
    IF p = other THEN Ok(TRUE)
    ELSE IF is_cons(h, other) THEN equal_cons_cons(h, p, other)
    ELSE LET a == is_atom(h, other)
         IN  IF ~a.ok THEN a
             ELSE IF a.v THEN Ok(FALSE)
             ELSE Ok(TRUE)

\* Cons.equals as it would be if two pair nodes with different pos were
\* never equal.
ConsEquals_same_pos(h, p, other) ==
    IF p = other THEN Ok(TRUE)
    ELSE IF InstanceOfCons(h, other) /\ h[other].pos # h[p].pos THEN Ok(FALSE)
    ELSE IF is_cons(h, other) THEN equal_cons_cons(h, p, other)
    ELSE LET a == is_atom(h, other)
         IN  IF ~a.ok THEN a
             ELSE IF a.v THEN Ok(FALSE)
             ELSE LET n == U_isNil(h, other)
                  IN  IF ~n.ok THEN n
                      ELSE IF n.v THEN Ok(isNil(h, p))
                      ELSE Ok(FALSE)

\* Cons.equals(other), with this = p
ConsEquals(h, p, other) ==
    IF p = other THEN Ok(TRUE)
    ELSE IF is_cons(h, other) THEN equal_cons_cons(h, p, other)
    ELSE LET a == is_atom(h, other)
         IN  IF ~a.ok THEN a
             ELSE IF a.v THEN Ok(FALSE)
             ELSE LET n == U_isNil(h, other)
                  IN  IF ~n.ok THEN n
                      ELSE IF n.v THEN Ok(isNil(h, p))
                      ELSE Ok(FALSE)

\* x.equals(other) for any handle x: the method of x's class.
equals(h, x, other) ==
    IF x = Undef THEN Thrown(TypeErrorMsg)
    ELSE IF x \in Atoms THEN Ok(AtomEquals(x, other))
    ELSE ConsEquals(h, x, other)

\* equal_cons_cons(lhs, rhs): one turn of its loop with p1, p2.
equal_cons_cons(h, p1, p2) ==
    IF is_cons(h, p1) /\ is_cons(h, p2)
    THEN LET e == equals(h, car(h, p1), car(h, p2))
         IN  IF ~e.ok THEN e
             ELSE IF e.v
             THEN LET c1 == cdr(h, p1)
                      c2 == cdr(h, p2)
                  IN  IF ~c1.ok THEN c1
                      ELSE IF ~c2.ok THEN c2
                      ELSE equal_cons_cons(h, c1.v, c2.v)
             ELSE Ok(FALSE)
    ELSE IF is_cons(h, p1) THEN Ok(FALSE)
    ELSE IF is_cons(h, p2) THEN Ok(FALSE)
    ELSE LET e == equals(h, p1, p2)
         IN  IF ~e.ok THEN e
             ELSE IF e.v THEN Ok(TRUE)
             ELSE Ok(FALSE)

RECURSIVE length_nil_identity(_, _)
\* length as it would be with the test this !== nil in place of isNil().
length_nil_identity(h, p) ==
    IF p = NilAddr THEN Ok(0)
    ELSE LET a == argList(h, p)
         IN  IF ~a.ok THEN a
             ELSE IF is_cons(h, a.v)
             THEN LET n == length_nil_identity(h, a.v)
                  IN  IF n.ok THEN Ok(n.v + 1) ELSE n
             ELSE Ok(1)

RECURSIVE length(_, _)
\* get Cons.length
length(h, p) ==
    IF isNil(h, p) THEN Ok(0)
    ELSE LET a == argList(h, p)
         IN  IF ~a.ok THEN a
             ELSE IF is_cons(h, a.v)
             THEN LET n == length(h, a.v)
                  IN  IF n.ok THEN Ok(n.v + 1) ELSE n
             ELSE Ok(1)

RECURSIVE item_nil_outside(_, _, _)
\* item as it would be if an index outside the list gave nil.
item_nil_outside(h, p, index) ==
    IF index >= 0 /\ ~isNil(h, p)
    THEN IF index = 0 THEN Ok(car(h, p))
         ELSE LET a == argList(h, p)
              IN  IF ~a.ok THEN a
                  ELSE IF is_cons(h, a.v) THEN item_nil_outside(h, a.v, index - 1)
                  ELSE Ok(NilAddr)
    ELSE Ok(NilAddr)

RECURSIVE item(_, _, _)
\* Cons.item(index)
item(h, p, index) ==
    IF index >= 0 /\ ~isNil(h, p)
    THEN IF index = 0 THEN Ok(car(h, p))
         ELSE LET a == argList(h, p)
              IN  IF ~a.ok THEN a
                  ELSE IF is_cons(h, a.v) THEN item(h, a.v, index - 1)
                  ELSE Thrown(IndexMsg)
    ELSE Thrown(IndexMsg)

\* get Cons.opr
opr(h, p) == item(h, p, 0)

\* get Cons.arg
arg(h, p) == item(h, p, 1)

\* get Cons.lhs
lhs(h, p) == item(h, p, 1)

\* get Cons.rhs
rhs(h, p) == item(h, p, 2)

\* get Cons.base: this.argList.head
base(h, p) ==
    LET a == argList(h, p)
    IN  IF ~a.ok THEN a ELSE Ok(head(h, a.v))

\* get Cons.expo: this.cdr.cdr.car
expo(h, p) ==
    LET c1 == cdr(h, p)
    IN  IF ~c1.ok THEN c1
        ELSE LET c2 == cdr(h, c1.v)
             IN  IF ~c2.ok THEN c2 ELSE Ok(car(h, c2.v))

\* is_singleton as it would be with identity tests against nil in place of
\* isNil().
is_singleton_nil_identity(h, x) ==
    IF x = Undef THEN Thrown(TypeErrorMsg)
    ELSE IF x = NilAddr THEN Ok(FALSE)
    ELSE IF x \in Atoms THEN Ok(FALSE)
    ELSE LET cdr_expr == cdr(h, x)
         IN  IF ~cdr_expr.ok THEN cdr_expr
             ELSE Ok(cdr_expr.v = NilAddr)

\* is_singleton(expr); an Atom has no cdr property, so expr.cdr is undefined
\* for it.
is_singleton(h, x) ==
    LET n == U_isNil(h, x)
    IN  IF ~n.ok THEN n
        ELSE IF n.v THEN Ok(FALSE)
        ELSE LET cdr_expr == IF x \in Atoms THEN Ok(Undef) ELSE cdr(h, x)
             IN  IF ~cdr_expr.ok THEN cdr_expr
                 ELSE LET m == U_isNil(h, cdr_expr.v)
                      IN  IF ~m.ok THEN m
                          ELSE IF m.v THEN Ok(TRUE)
                          ELSE Ok(FALSE)

RECURSIVE contains(_, _, _)

\* Cons.contains as it would be if only the elements held directly were
\* compared with the needle, without a search inside them.
ConsContains_flat(h, p, needle) ==
    IF p = needle THEN Ok(TRUE)
    ELSE LET e == ConsEquals(h, p, needle)
         IN  IF ~e.ok THEN e
             ELSE IF e.v THEN Ok(TRUE)
             ELSE IF h[p].car # Undef /\ h[p].cdr # Undef
             THEN LET c == equals(h, h[p].car, needle)
                  IN  IF ~c.ok THEN c
                      ELSE IF c.v THEN Ok(TRUE)
                      ELSE contains(h, h[p].cdr, needle)
             ELSE Ok(FALSE)

\* Cons.contains(needle), with this = p
ConsContains(h, p, needle) ==
    IF p = needle THEN Ok(TRUE)
    ELSE LET e == ConsEquals(h, p, needle)
         IN  IF ~e.ok THEN e
             ELSE IF e.v THEN Ok(TRUE)
             ELSE IF h[p].car # Undef /\ h[p].cdr # Undef
             THEN LET c == contains(h, h[p].car, needle)
                  IN  IF ~c.ok THEN c
                      ELSE IF c.v THEN Ok(TRUE)
                      ELSE contains(h, h[p].cdr, needle)
             ELSE Ok(FALSE)

\* x.contains(needle) for any handle x: the method of x's class;
\* Atom.contains is Atom.equals.
contains(h, x, needle) ==
    IF x = Undef THEN Thrown(TypeErrorMsg)
    ELSE IF x \in Atoms THEN Ok(AtomEquals(x, needle))
    ELSE ConsContains(h, x, needle)

\* Atom.toString()
AtomToString(a) == "Atom('" \o AtomValue(a) \o "')"

RECURSIVE toString(_, _)
\* Cons.toString(); the template literal renders a slot by its own
\* toString, and an absent slot as the text undefined.
toString(h, p) ==
    LET Render(x) == IF x = Undef THEN "undefined"
                     ELSE IF x \in Atoms THEN AtomToString(x)
                     ELSE toString(h, x)
    IN  IF h[p].car # Undef
        THEN "(" \o Render(h[p].car) \o " " \o Render(h[p].cdr) \o ")"
        ELSE "()"

RECURSIVE iterate(_, _)
\* [...u]: everything Cons[Symbol.iterator] yields, started with this = u.
iterate(h, u) ==
    IF is_cons(h, u)
    THEN LET c == cdr(h, u)
         IN  IF ~c.ok THEN c
             ELSE LET r == iterate(h, c.v)
                  IN  IF r.ok THEN Ok(<<car(h, u)>> \o r.v) ELSE r
    ELSE Ok(<<>>)

\* tail as it would be if the iteration started at this instead of its cdr.
tail_from_this(h, p) ==
    IF isNil(h, p) THEN Thrown(TailMsg) ELSE iterate(h, p)

\* Cons.tail()
tail(h, p) ==
    IF isNil(h, p) THEN Thrown(TailMsg)
    ELSE LET c == h[p].cdr
         IN  IF c # Undef /\ is_cons(h, c) THEN iterate(h, c) ELSE Ok(<<>>)

\* car(node), the free function
car_fn(h, x) == IF is_cons(h, x) THEN car(h, x) ELSE NilAddr

\* cdr(node), the free function
cdr_fn(h, x) == IF is_cons(h, x) THEN cdr(h, x) ELSE Ok(NilAddr)

\* ---------------------------------------------------------------- construction

\* What an operation that may allocate returns: the heap after it and its
\* result.
Outcome(h, out) == [heap |-> h, out |-> out]

\* cons as it would be without the instanceof check.
cons_unchecked(h, a, d, pos, end) ==
    Outcome(Append(h, NewNode(a, d, pos, end)), Ok(Len(h) + 1))

\* cons(car, cdr, pos, end)
cons(h, a, d, pos, end) ==
    IF InstanceOfCons(h, d)
    THEN Outcome(Append(h, NewNode(a, d, pos, end)), Ok(Len(h) + 1))
    ELSE Outcome(h, Thrown(NoMsg))

RECURSIVE items_loop(_, _, _, _, _, _)
\* The loop of pos_end_items_to_cons, about to run its body for items[i]
\* (i counts from 1 here, from 0 in the source).
items_loop(h, pos, end, items, i, node) ==
    IF i >= 1
    THEN items_loop(Append(h, NewNode(items[i], node, pos, end)),
                    pos, end, items, i - 1, Len(h) + 1)
    ELSE Outcome(h, Ok(node))

\* pos_end_items_to_cons as it would be with the loop running forward, from
\* the first item to the last.
pos_end_items_to_cons_forward(h, pos, end, items) ==
    items_loop(h, pos, end, [i \in 1..Len(items) |-> items[Len(items) + 1 - i]],
               Len(items), NilAddr)

\* pos_end_items_to_cons(pos, end, ...items)
pos_end_items_to_cons(h, pos, end, items) ==
    items_loop(h, pos, end, items, Len(items), NilAddr)

\* items_to_cons(...items)
items_to_cons(h, items) == pos_end_items_to_cons(h, Undef, Undef, items)

\* The mapping functions handed to map: the identity, the constant function
\* to the atom bar, and the exchange of the atoms foo and bar.
Fns == {"id", "bar", "swap"}

Apply(f, x) ==
    IF f = "bar" THEN Bar
    ELSE IF f = "swap" THEN (IF x = Foo THEN Bar ELSE IF x = Bar THEN Foo ELSE x)
    ELSE x

\* What map returns: the heap after it, its result, and the number of
\* times it called f.
MapOutcome(h, out, calls) == [heap |-> h, out |-> out, calls |-> calls]

RECURSIVE map(_, _, _)

\* map as it would be if only the head were mapped and the rest of the
\* chain were kept as it is.
map_head_only(h, p, f) ==
    IF isNil(h, p) THEN MapOutcome(h, Ok(p), 0)
    ELSE LET a == car(h, p)
             b == cdr(h, p)
         IN  IF ~b.ok THEN MapOutcome(h, b, 0)
             ELSE MapOutcome(Append(h, NewNode(Apply(f, a), b.v, h[p].pos, h[p].end)),
                             Ok(Len(h) + 1), 1)

\* map as it would be if it wrote f(a) into the head-slot of this and
\* returned this, in place of a new node.
map_in_place(h, p, f) ==
    IF isNil(h, p) THEN MapOutcome(h, Ok(p), 0)
    ELSE MapOutcome([h EXCEPT ![p].car = Apply(f, car(h, p))], Ok(p), 1)

\* Cons.map(f): f(a) is evaluated, then b.map(f), then the constructor runs.
map(h, p, f) ==
    IF isNil(h, p) THEN MapOutcome(h, Ok(p), 0)
    ELSE LET a == car(h, p)
             b == cdr(h, p)
         IN  IF ~b.ok THEN MapOutcome(h, b, 0)
             ELSE IF is_cons(h, b.v)
             THEN LET r == map(h, b.v, f)
                  IN  IF ~r.out.ok THEN MapOutcome(r.heap, r.out, r.calls + 1)
                      ELSE MapOutcome(Append(r.heap,
                                             NewNode(Apply(f, a), r.out.v, h[p].pos, h[p].end)),
                                      Ok(Len(r.heap) + 1), r.calls + 1)
             ELSE MapOutcome(Append(h, NewNode(Apply(f, a), b.v, h[p].pos, h[p].end)),
                             Ok(Len(h) + 1), 1)

\* The generator as it would be if the cursor were kept with the chain and
\* shared by its traversals: a new traversal goes on from where an
\* unfinished one over the same node stands.
NewIterator_shared(gs, p) ==
    IF \E k \in 1..Len(gs) : gs[k].start = p /\ gs[k].pc = "yielded"
    THEN LET k == CHOOSE k \in 1..Len(gs) : gs[k].start = p /\ gs[k].pc = "yielded"
         IN  [start |-> p, u |-> gs[k].u, pc |-> "yielded", yielded |-> <<>>]
    ELSE [start |-> p, u |-> p, pc |-> "start", yielded |-> <<>>]

\* The generator object p[Symbol.iterator]() returns when the generators gs
\* exist already: a fresh one, which reads nothing of gs.  Nothing of its
\* body has run, its variable u is about to be set to this = p.  start and
\* yielded record where it began and what it has yielded so far.
NewIterator(gs, p) == [start |-> p, u |-> p, pc |-> "start", yielded |-> <<>>]

\* One call of next() on the generator g, which is not finished: it runs
\* from where it is suspended (before the loop, or at the yield) to the next
\* yield, to the end of the loop, or to a throw of u.cdr.
IteratorNext(h, g) ==
    LET adv == IF g.pc = "yielded" THEN cdr(h, g.u) ELSE Ok(g.u)
    IN  IF ~adv.ok THEN [g EXCEPT !.pc = "thrown"]
        ELSE IF is_cons(h, adv.v)
        THEN [g EXCEPT !.u = adv.v, !.pc = "yielded",
                       !.yielded = Append(g.yielded, car(h, adv.v))]
        ELSE [g EXCEPT !.u = adv.v, !.pc = "done"]

\* ---------------------------------------------------------------- state machine

\* The record of the last construction call: the operation, its handle
\* arguments, its mapping function (map only) and what it returned.
Call(op, args, f, out) == [op |-> op, args |-> args, f |-> f, out |-> out]

\* Sequences of at most n elements of S.
SeqUpTo(S, n) == UNION {[1..k -> S] : k \in 0..n}

\* The argument lists items_to_cons is called with when the heap may grow to
\* cap objects.
ItemLists(h, cap) ==
    SeqUpTo(Handles(h), IF cap - Len(h) < MaxItems THEN cap - Len(h) ELSE MaxItems)

\* The (car, cdr) pairs cons is called with: every handle with every pair
\* node, and one atom with each second argument that is no pair node.
ConsArgs(h) ==
    (Handles(h) \X Nodes(h)) \cup ({Foo} \X (Atoms \cup {Undef}))

\* The module's initialisation: export const nil = new Cons(void 0, void 0, void 0, void 0)
Init ==
    /\ heap = <<NewNode(Undef, Undef, Undef, Undef)>>
    /\ ret = Call("init", <<>>, "", Ok(NilAddr))
    /\ its = <<>>

\* new Cons(car, cdr, pos, end) called by a client, with any slot values.
New(a, d, pe) ==
    /\ heap' = Append(heap, NewNode(a, d, pe[1], pe[2]))
    /\ ret' = Call("new", <<a, d>>, "", Ok(Len(heap) + 1))

\* A client calls cons(car, cdr, pos, end).
ConsCall(a, d, pe) ==
    LET r == cons(heap, a, d, pe[1], pe[2])
    IN  /\ heap' = r.heap
        /\ ret' = Call("cons", <<a, d>>, "", r.out)

\* A client calls pos_end_items_to_cons(pos, end, ...items).
PosEndItemsToConsCall(pe, items) ==
    LET r == pos_end_items_to_cons(heap, pe[1], pe[2], items)
    IN  /\ heap' = r.heap
        /\ ret' = Call("pos_end_items_to_cons", items, "", r.out)

\* A client calls items_to_cons(...items).
ItemsToConsCall(items) ==
    LET r == items_to_cons(heap, items)
    IN  /\ heap' = r.heap
        /\ ret' = Call("items_to_cons", items, "", r.out)

\* A client calls p.map(f).
MapCall(p, f) ==
    LET r == map(heap, p, f)
    IN  /\ heap' = r.heap
        /\ ret' = Call("map", <<p>>, f, r.out)

\* The heap after the step has at most cap objects.
Fits(cap) == Len(heap') <= cap

\* Every public way to construct: the constructor and the list builders.
Next ==
    \/ \E a \in Handles(heap) \cup {Undef}, d \in Handles(heap) \cup {Undef}, pe \in PosEnds :
           New(a, d, pe) /\ Fits(MaxNodes) /\ UNCHANGED its
    \/ \E ad \in ConsArgs(heap), pe \in PosEnds :
           ConsCall(ad[1], ad[2], pe) /\ Fits(MaxNodes) /\ UNCHANGED its
    \/ \E pe \in PosEnds, items \in ItemLists(heap, MaxNodes) :
           PosEndItemsToConsCall(pe, items) /\ Fits(MaxNodes) /\ UNCHANGED its
    \/ \E items \in ItemLists(heap, MaxNodes) :
           ItemsToConsCall(items) /\ Fits(MaxNodes) /\ UNCHANGED its
    \/ \E p \in Nodes(heap), f \in Fns :
           MapCall(p, f) /\ Fits(MaxNodes) /\ UNCHANGED its

Spec == Init /\ [][Next]_vars

\* The list builders alone: every pair node is nil or was made by cons,
\* items_to_cons, pos_end_items_to_cons or map.
NextList ==
    \/ \E ad \in ConsArgs(heap), pe \in PosEnds :
           ConsCall(ad[1], ad[2], pe) /\ Fits(MaxListNodes) /\ UNCHANGED its
    \/ \E pe \in PosEnds, items \in ItemLists(heap, MaxListNodes) :
           PosEndItemsToConsCall(pe, items) /\ Fits(MaxListNodes) /\ UNCHANGED its
    \/ \E items \in ItemLists(heap, MaxListNodes) :
           ItemsToConsCall(items) /\ Fits(MaxListNodes) /\ UNCHANGED its
    \/ \E p \in Nodes(heap), f \in Fns :
           MapCall(p, f) /\ Fits(MaxListNodes) /\ UNCHANGED its

SpecList == Init /\ [][NextList]_vars

\* A client calls p[Symbol.iterator]() and keeps the generator.
IterNew(p) ==
    /\ its' = Append(its, NewIterator(its, p))
    /\ UNCHANGED <<heap, ret>>

\* A client calls next() on the k-th generator, which is not finished.
IterNext(k) ==
    /\ its[k].pc \in {"start", "yielded"}
    /\ its' = [its EXCEPT ![k] = IteratorNext(heap, its[k])]
    /\ UNCHANGED <<heap, ret>>

\* Construction by the constructor and by items_to_cons, interleaved in any
\* order with the creation and the stepping of at most MaxIters generators.
NextIter ==
    \/ \E a \in Handles(heap) \cup {Undef}, d \in Handles(heap) \cup {Undef} :
           New(a, d, <<Undef, Undef>>) /\ Fits(MaxIterNodes) /\ UNCHANGED its
    \/ \E items \in ItemLists(heap, MaxIterNodes) :
           ItemsToConsCall(items) /\ Fits(MaxIterNodes) /\ UNCHANGED its
    \/ \E p \in Nodes(heap) :
           Len(its) < MaxIters /\ IterNew(p)
    \/ \E k \in 1..Len(its) :
           IterNext(k)

SpecIter == Init /\ [][NextIter]_vars

\* ---------------------------------------------------------------- claims

\* The last call was a list-building call of items_to_cons or
\* pos_end_items_to_cons.
BuiltList == ret.op \in {"items_to_cons", "pos_end_items_to_cons"}

RECURSIVE rest_after(_, _, _)
\* The handle in the rest-slot chain of p after n steps.
rest_after(h, p, n) == IF n = 0 THEN p ELSE rest_after(h, h[p].cdr, n - 1)

\* C1: items_to_cons(...items) with n items returns a chain that ends in the
\* sentinel itself after n nodes, whose length is n and whose item(i) is the
\* very handle items[i], in input order; with no items it returns nil.
C1_ItemsToConsChain ==
    BuiltList =>
        LET items == ret.args
            n == Len(items)
        IN  /\ ret.out.ok
            /\ ret.out.v \in Nodes(heap)
            /\ length(heap, ret.out.v) = Ok(n)
            /\ \A i \in 0..(n - 1) : item(heap, ret.out.v, i) = Ok(items[i + 1])
            /\ rest_after(heap, ret.out.v, n) = NilAddr
            /\ (n = 0 => ret.out.v = NilAddr)

\* A list of three items, not all the same, was just built.
C1_Witness ==
    /\ ret.op = "items_to_cons"
    /\ Len(ret.args) = 3
    /\ ret.args[1] # ret.args[3]
    /\ item(heap, ret.out.v, 2) = Ok(ret.args[3])

\* B is a pair node of the same length as A whose items equal those of A,
\* position by position.
SameItems(h, A, B) ==
    /\ B \in Nodes(h)
    /\ LET la == length(h, A)
           lb == length(h, B)
       IN  /\ la.ok
           /\ lb.ok
           /\ la.v = lb.v
           /\ \A i \in 0..(la.v - 1) :
                  LET x == item(h, A, i)
                      y == item(h, B, i)
                  IN  /\ x.ok
                      /\ y.ok
                      /\ equals(h, x.v, y.v) = Ok(TRUE)

C3_EqualsReflexiveSymmetric ==
    \A x \in Handles(heap) :
        /\ equals(heap, x, x) = Ok(TRUE)
        /\ \A y \in Handles(heap) : equals(heap, x, y) = equals(heap, y, x)

\* The heap holds an empty pair node other than nil inside a non-empty pair
\* node, a nested one.
C3_Witness ==
    \E x \in Nodes(heap), y \in Nodes(heap) :
        /\ x # NilAddr
        /\ isNil(heap, x)
        /\ is_cons(heap, y)
        /\ car(heap, y) = x
        /\ equals(heap, x, NilAddr) = Ok(TRUE)
        /\ equals(heap, y, x) = Ok(FALSE)

\* C4: is_nil(x) is x.equals(nil) for every handle x; and every pair node p
\* with an unset head-slot equals nil both ways, is empty by isNil and
\* is_nil, has length 0 and has cdr(p) = nil.
C4_EmptinessTestsAgree ==
    /\ \A x \in Handles(heap) : is_nil(heap, x) = equals(heap, x, NilAddr)
    /\ \A p \in Nodes(heap) :
           heap[p].car = Undef =>
               /\ equals(heap, p, NilAddr) = Ok(TRUE)
               /\ equals(heap, NilAddr, p) = Ok(TRUE)
               /\ isNil(heap, p)
               /\ is_nil(heap, p) = Ok(TRUE)
               /\ length(heap, p) = Ok(0)
               /\ cdr_fn(heap, p) = Ok(NilAddr)

\* new Cons(undefined, undefined, 23, 26) was called, next to a non-empty
\* node.
C4_Witness ==
    \E p \in Nodes(heap), q \in Nodes(heap) :
        /\ p # NilAddr
        /\ heap[p] = NewNode(Undef, Undef, 23, 26)
        /\ is_nil(heap, q) = Ok(FALSE)

RECURSIVE element(_, _, _)
\* The i-th element of the chain of p: the head-slot of the node i steps
\* along the rest-slots.
element(h, p, i) == IF i = 0 THEN h[p].car ELSE element(h, h[p].cdr, i - 1)

C6_ItemOutsideIsNil ==
    BuiltList =>
        LET X == ret.out.v
            after == item(heap, X, Len(ret.args))
            before == item(heap, X, -1)
        IN  /\ after.ok
            /\ U_isNil(heap, after.v) = Ok(TRUE)
            /\ before.ok
            /\ U_isNil(heap, before.v) = Ok(TRUE)

\* C7: cons(head, rest) fails exactly when rest is not a pair node, and then
\* creates no node; when rest is a pair node, nil included, it returns a new
\* node whose car is the very handle head and whose cdr is the very node
\* rest, and leaves every older node as it was.
C7_ConsChecksRest ==
    [][ret'.op = "cons" =>
          LET a == ret'.args[1]
              d == ret'.args[2]
              n == Len(heap) + 1
          IN  IF d \in Nodes(heap)
              THEN /\ ret'.out = Ok(n)
                   /\ Len(heap') = n
                   /\ SubSeq(heap', 1, Len(heap)) = heap
                   /\ car(heap', n) = a
                   /\ cdr(heap', n) = Ok(d)
              ELSE /\ ~ret'.out.ok
                   /\ heap' = heap]_vars

\* cons was refused for a second argument that is an atom or absent, with
\* pair nodes other than nil already built.
C7_Witness ==
    /\ ret.op = "cons"
    /\ ~ret.out.ok
    /\ ret.args[2] \notin Nodes(heap)
    /\ Len(heap) > 1

C9_LengthRecurrence ==
    \A p \in Nodes(heap) :
        /\ length(heap, p) =
               (IF heap[p].car = Undef THEN Ok(0)
                ELSE LET r == cdr_fn(heap, p)
                     IN  IF ~r.ok THEN r
                         ELSE LET n == length(heap, r.v)
                              IN  IF n.ok THEN Ok(n.v + 1) ELSE n)
        /\ length(heap, p).ok =>
               /\ iterate(heap, p).ok
               /\ Len(iterate(heap, p).v) = length(heap, p).v

\* The heap holds a non-empty pair node whose rest is an empty pair node
\* other than nil: the lengths are 1 and 0.
C9_Witness ==
    \E p \in Nodes(heap), q \in Nodes(heap) :
        /\ heap[p].car # Undef
        /\ heap[p].cdr = q
        /\ q # NilAddr
        /\ heap[q].car = Undef
        /\ length(heap, q) = Ok(0)
        /\ length(heap, p) = Ok(1)

\* C10: for every non-empty sequence items of n handles,
\* items_to_cons(...items).tail() is the sequence of the n - 1 handles
\* items[1..], the very same references in order, empty when n = 1; tail()
\* on the sentinel fails.
C10_TailOfBuiltList ==
    /\ (BuiltList /\ Len(ret.args) >= 1) =>
           tail(heap, ret.out.v) = Ok(SubSeq(ret.args, 2, Len(ret.args)))
    /\ tail(heap, NilAddr) = Thrown(TailMsg)

\* A list of three items whose last two differ was just built.
C10_Witness ==
    /\ ret.op = "items_to_cons"
    /\ Len(ret.args) = 3
    /\ ret.args[2] # ret.args[3]
    /\ tail(heap, ret.out.v) = Ok(<<ret.args[2], ret.args[3]>>)

RECURSIVE AtomsIn(_, _)
\* The atoms that occur in x at any depth: x itself when it is an atom, and
\* for a non-empty pair node those of its head-slot and of its rest-slot.
AtomsIn(h, x) ==
    IF x \in Atoms THEN {x}
    ELSE IF x = Undef THEN {}
    ELSE IF h[x].car = Undef THEN {}
    ELSE AtomsIn(h, h[x].car) \cup AtomsIn(h, h[x].cdr)

\* C11: for every chain L made by the list builders, chains as elements
\* included, L.contains(L) is true, L.contains(e) is true for every element
\* e of L, and for an atom a L.contains(a) is true exactly when a equals an
\* atom occurring at some depth in L; nil.contains(a) is false.
C11_ContainsInChains ==
    \A L \in Nodes(heap) :
        /\ contains(heap, L, L) = Ok(TRUE)
        /\ \A i \in 0..MaxIndex :
               item(heap, L, i).ok => contains(heap, L, item(heap, L, i).v) = Ok(TRUE)
        /\ \A a \in Atoms :
               /\ contains(heap, L, a) =
                      Ok(\E b \in AtomsIn(heap, L) : AtomValue(b) = AtomValue(a))
               /\ contains(heap, NilAddr, a) = Ok(FALSE)

\* A chain whose only element is the chain (foo): it contains every atom of
\* value foo and not the atom bar.
C11_Witness ==
    \E L \in Nodes(heap), X \in Nodes(heap) :
        /\ heap[L].car = X
        /\ heap[L].cdr = NilAddr
        /\ heap[X].car = Foo
        /\ heap[X].cdr = NilAddr
        /\ contains(heap, L, Foo2) = Ok(TRUE)
        /\ contains(heap, L, X) = Ok(TRUE)
        /\ contains(heap, L, Bar) = Ok(FALSE)

\* C12: for every pair node p, however constructed, and every needle n,
\* p.contains(n) is true exactly when p is n or equals n, or p is non-empty
\* and p.head.contains(n) or p.rest.contains(n).
C12_ContainsRecurrence ==
    \A p \in Nodes(heap), n \in Handles(heap) :
        (contains(heap, p, n) = Ok(TRUE))
            <=> \/ p = n
                \/ equals(heap, p, n) = Ok(TRUE)
                \/ /\ heap[p].car # Undef
                   /\ \/ contains(heap, head(heap, p), n) = Ok(TRUE)
                      \/ /\ cdr(heap, p).ok
                         /\ contains(heap, cdr(heap, p).v, n) = Ok(TRUE)

\* C13: for every chain L made by the list builders and every mapping
\* function f, L.map(f) is a chain of the length of L whose item(i) is
\* f(L.item(i)) for every index i, made with one call of f for each element
\* and without a change to an older node; nil.map(f) is nil itself, with no
\* call of f and nothing allocated.
C13_MapPreservesShape ==
    \A L \in Nodes(heap), f \in Fns :
        LET r == map(heap, L, f)
            n == length(heap, L)
        IN  /\ n.ok
            /\ r.out.ok
            /\ SubSeq(r.heap, 1, Len(heap)) = heap
            /\ length(r.heap, r.out.v) = n
            /\ \A i \in 0..(n.v - 1) :
                   item(r.heap, r.out.v, i) = Ok(Apply(f, item(heap, L, i).v))
            /\ r.calls = n.v
            /\ map(heap, NilAddr, f) = MapOutcome(heap, Ok(NilAddr), 0)

\* A chain of three elements, the first foo and the last bar, whose map by
\* the exchange of foo and bar starts with bar and ends with foo.
C13_Witness ==
    \E L \in Nodes(heap) :
        /\ length(heap, L) = Ok(3)
        /\ item(heap, L, 0) = Ok(Foo)
        /\ item(heap, L, 2) = Ok(Bar)
        /\ LET r == map(heap, L, "swap")
           IN  /\ r.out.v # L
               /\ item(r.heap, r.out.v, 0) = Ok(Bar)
               /\ item(r.heap, r.out.v, 2) = Ok(Foo)

\* What holds of every generator at every moment: it has yielded the first
\* elements of the chain it was started on, in order; suspended at a yield
\* it stands on the node of the element it yielded last; it is finished
\* exactly after all the elements, at once for an empty node; and it throws
\* only where the length of the chain is undefined.
IterationYieldsElements ==
    \A k \in 1..Len(its) :
        LET g == its[k]
            n == length(heap, g.start)
        IN  /\ \A i \in 1..Len(g.yielded) : g.yielded[i] = element(heap, g.start, i - 1)
            /\ g.pc = "yielded" =>
                   /\ Len(g.yielded) >= 1
                   /\ g.u = rest_after(heap, g.start, Len(g.yielded) - 1)
            /\ n.ok => Len(g.yielded) <= n.v
            /\ g.pc = "done" => (n.ok /\ Len(g.yielded) = n.v)
            /\ g.pc = "thrown" => ~n.ok
            /\ (heap[g.start].car = Undef /\ g.pc # "start") =>
                   (g.pc = "done" /\ g.yielded = <<>>)

\* What holds of every step: a step of one generator changes neither the
\* heap nor another generator, and a construction step changes no generator
\* and no older node.
IterationStepsIndependent ==
    /\ \A k \in 1..Len(its) :
           its'[k] # its[k] =>
               /\ heap' = heap
               /\ \A j \in 1..Len(its) : j # k => its'[j] = its[j]
               /\ its'[k].start = its[k].start
    /\ heap' # heap =>
           /\ its' = its
           /\ SubSeq(heap', 1, Len(heap)) = heap

\* C14: an iteration of a pair node yields exactly its elements in order and
\* stops at the first empty node, yielding nothing for nil; every call makes
\* a fresh generator, so generators over the same chain stepped in any
\* interleaving, with construction steps between, each yield the whole
\* sequence from the start, and no step of one changes another or the chain.
C14_IterationIndependent ==
    []IterationYieldsElements /\ [][IterationStepsIndependent]_vars

\* Two generators over the same chain of two elements: the first has
\* finished, the second was created after the first had started and stands
\* at the first element.
C14_Witness ==
    /\ Len(its) = 2
    /\ its[1].start = its[2].start
    /\ length(heap, its[1].start) = Ok(2)
    /\ its[1].pc = "done"
    /\ Len(its[1].yielded) = 2
    /\ its[2].pc = "yielded"
    /\ Len(its[2].yielded) = 1

\* C15: car, cdr, is_cons, is_atom, is_nil and is_singleton return a result
\* for every argument, undefined included: car(undefined) and
\* cdr(undefined) are nil and is_cons(undefined) is false.
C15_FreeFunctionsTolerateAll ==
    \A x \in Handles(heap) \cup {Undef} :
        /\ car_fn(heap, x) \in Handles(heap)
        /\ cdr_fn(heap, x).ok
        /\ is_cons(heap, x) \in BOOLEAN
        /\ is_atom(heap, x).ok
        /\ is_nil(heap, x).ok
        /\ is_singleton(heap, x).ok
        /\ car_fn(heap, Undef) = NilAddr
        /\ cdr_fn(heap, Undef) = Ok(NilAddr)
        /\ is_cons(heap, Undef) = FALSE

\* C16: for every pair node p, is_singleton(p) is true exactly when p is
\* non-empty and its rest is empty, that is when p is a chain of exactly one
\* element; it is false for nil and for every chain of no or of two and
\* more elements.
C16_SingletonIffOneElement ==
    \A p \in Nodes(heap) :
        LET n == length(heap, p)
            s == is_singleton(heap, p)
        IN  /\ n.ok => s = Ok(n.v = 1)
            /\ (s = Ok(TRUE)) <=>
                   /\ heap[p].car # Undef
                   /\ cdr(heap, p).ok
                   /\ equals(heap, cdr(heap, p).v, NilAddr) = Ok(TRUE)
            /\ is_singleton(heap, NilAddr) = Ok(FALSE)

\* A singleton whose rest is an empty pair node other than nil, next to the
\* empty node, which is none.
C16_Witness ==
    \E p \in Nodes(heap), q \in Nodes(heap) :
        /\ heap[p].car # Undef
        /\ heap[p].cdr = q
        /\ q # NilAddr
        /\ heap[q].car = Undef
        /\ is_singleton(heap, p) = Ok(TRUE)
        /\ is_singleton(heap, q) = Ok(FALSE)

\* C17: the role tags of every pair node p follow its head-slot: set, p.name
\* is "Cons", isCons() is true, isNil() is false and is_cons(p) is true;
\* unset, p.name is "Nil", isCons() is false, isNil() is true and is_cons(p)
\* is false; is_atom(p) is false either way and is_atom(a) is true for
\* every atom a.
C17_RoleTagsFollowHead ==
    /\ \A p \in Nodes(heap) :
           /\ heap[p].car # Undef =>
                  /\ name(heap, p) = "Cons"
                  /\ isCons(heap, p) = TRUE
                  /\ isNil(heap, p) = FALSE
                  /\ is_cons(heap, p) = TRUE
           /\ heap[p].car = Undef =>
                  /\ name(heap, p) = "Nil"
                  /\ isCons(heap, p) = FALSE
                  /\ isNil(heap, p) = TRUE
                  /\ is_cons(heap, p) = FALSE
           /\ is_atom(heap, p) = Ok(FALSE)
    /\ \A a \in Atoms : is_atom(heap, a) = Ok(TRUE)

\* The heap holds an empty pair node other than nil whose rest-slot is set,
\* and a non-empty pair node whose head is nil.
C17_Witness ==
    \E p \in Nodes(heap), q \in Nodes(heap) :
        /\ p # NilAddr
        /\ heap[p].car = Undef
        /\ heap[p].cdr # Undef
        /\ name(heap, p) = "Nil"
        /\ heap[q].car = NilAddr
        /\ name(heap, q) = "Cons"

\* x and y succeed together and then return the same handle, or fail
\* together.
SameBounds(x, y) == (x.ok <=> y.ok) /\ (x.ok => x = y)

\* C18: for every pair node p, p.opr behaves as p.item(0), p.arg, p.lhs and
\* p.base as p.item(1), p.rhs and p.expo as p.item(2): the same element when
\* the position exists, and a failure exactly when item fails.
C18_AccessorsAreItemSugar ==
    \A p \in Nodes(heap) :
        /\ SameBounds(opr(heap, p), item(heap, p, 0))
        /\ SameBounds(arg(heap, p), item(heap, p, 1))
        /\ SameBounds(lhs(heap, p), item(heap, p, 1))
        /\ SameBounds(base(heap, p), item(heap, p, 1))
        /\ SameBounds(rhs(heap, p), item(heap, p, 2))
        /\ SameBounds(expo(heap, p), item(heap, p, 2))

RECURSIVE Nested(_, _)
\* The fully nested rendering of x with the rest taken by the rest accessor,
\* which gives nil for an unset rest-slot.
Nested(h, x) ==
    IF x \in Atoms THEN AtomToString(x)
    ELSE IF h[x].car = Undef THEN "()"
    ELSE "(" \o Nested(h, h[x].car) \o " " \o Nested(h, cdr(h, x).v) \o ")"

\* C19: for every pair node p whose rest accessor succeeds, p.toString() is
\* "()" when p is empty and "(" head " " rest ")" otherwise, with rest the
\* rendering of what the rest accessor returns; nil renders as "()".
C19_ToStringNested ==
    \A p \in Nodes(heap) :
        /\ (heap[p].car # Undef /\ cdr(heap, p).ok) =>
               toString(heap, p) =
                   "(" \o Nested(heap, heap[p].car) \o " "
                       \o Nested(heap, cdr(heap, p).v) \o ")"
        /\ heap[p].car = Undef => toString(heap, p) = "()"
        /\ toString(heap, NilAddr) = "()"

\* Heap h with the pos and end of every node erased.
Erase(h) == [i \in 1..Len(h) |-> [h[i] EXCEPT !.pos = Undef, !.end = Undef]]

RECURSIVE SameShape(_, _, _)
\* x and y differ at most in the pos and end of their nodes: the same
\* handle, or two pair nodes whose head-slots and rest-slots do so.
SameShape(h, x, y) ==
    IF x = y THEN TRUE
    ELSE IF x \in Nodes(h) /\ y \in Nodes(h)
    THEN SameShape(h, h[x].car, h[y].car) /\ SameShape(h, h[x].cdr, h[y].cdr)
    ELSE FALSE

RECURSIVE WellFormed(_, _)
\* No non-empty pair node in x holds an atom in its rest-slot.
WellFormed(h, x) ==
    IF x \notin Nodes(h) THEN TRUE
    ELSE IF h[x].car = Undef THEN TRUE
    ELSE /\ h[x].cdr \notin Atoms
         /\ WellFormed(h, h[x].car)
         /\ WellFormed(h, h[x].cdr)

\* C20: pos and end never influence a result: equals, contains, length,
\* item, tail and iteration give on every node what they give with every pos
\* and end erased; and two trees that differ only in pos and end give the
\* same results and, free of atoms in rest-slots, equal each other.
C20_PosEndNeverInfluence ==
    LET E == Erase(heap)
    IN  /\ \A p \in Nodes(heap) :
               /\ length(heap, p) = length(E, p)
               /\ tail(heap, p) = tail(E, p)
               /\ iterate(heap, p) = iterate(E, p)
               /\ \A i \in (-1)..MaxIndex : item(heap, p, i) = item(E, p, i)
               /\ \A x \in Handles(heap) :
                      /\ equals(heap, p, x) = equals(E, p, x)
                      /\ equals(heap, x, p) = equals(E, x, p)
                      /\ contains(heap, p, x) = contains(E, p, x)
        /\ \A p \in Nodes(heap), q \in Nodes(heap) :
               (SameShape(heap, p, q) /\ WellFormed(heap, p)) =>
                   /\ equals(heap, p, q) = Ok(TRUE)
                   /\ equals(heap, q, p) = Ok(TRUE)
                   /\ length(heap, p) = length(heap, q)
                   /\ \A x \in Handles(heap) :
                          /\ contains(heap, p, x) = contains(heap, q, x)
                          /\ equals(heap, p, x) = equals(heap, q, x)

\* The heap holds two non-empty nodes with the same slots, free of atoms in
\* rest-slots, of which only one has pos 23 and end 26.
C20_Witness ==
    \E p \in Nodes(heap), q \in Nodes(heap) :
        /\ p # q
        /\ heap[p].car # Undef
        /\ SameShape(heap, p, q)
        /\ WellFormed(heap, p)
        /\ heap[p].pos = 23
        /\ heap[q].pos = Undef
        /\ equals(heap, p, q) = Ok(TRUE)

\* C21: in every reachable state the rest-slot of every pair node is unset
\* or holds a pair node, never an atom.
C21_RestSlotNeverAtom ==
    \A p \in Nodes(heap) : heap[p].cdr = Undef \/ heap[p].cdr \in Nodes(heap)

\* C22: no step changes a node that exists: after every construction call,
\* failed ones included, the head-slot, rest-slot, pos and end of every
\* older node are what they were, a failed call allocates nothing, and nil
\* stays the empty node without pos and end.
C22_NoMutation ==
    /\ [](heap[NilAddr] = NewNode(Undef, Undef, Undef, Undef))
    /\ [][/\ Len(heap') >= Len(heap)
          /\ SubSeq(heap', 1, Len(heap)) = heap
          /\ ~ret'.out.ok => heap' = heap]_vars

\* map by the exchange of foo and bar was called on a node whose head is
\* foo: the result is another node with head bar and the node still holds
\* foo.
C22_Witness ==
    /\ ret.op = "map"
    /\ ret.f = "swap"
    /\ ret.out.ok
    /\ ret.out.v # ret.args[1]
    /\ heap[ret.args[1]].car = Foo
    /\ heap[ret.out.v].car = Bar

\* C23: for every pair node p with an unset head-slot, whatever its
\* rest-slot holds, cdr / argList, base, expo, length, iteration, tail,
\* toString, equals and contains give what they give on nil.
C23_EmptyIgnoresRest ==
    \A p \in Nodes(heap) :
        heap[p].car = Undef =>
            /\ cdr(heap, p) = cdr(heap, NilAddr)
            /\ argList(heap, p) = argList(heap, NilAddr)
            /\ base(heap, p) = base(heap, NilAddr)
            /\ expo(heap, p) = expo(heap, NilAddr)
            /\ length(heap, p) = length(heap, NilAddr)
            /\ iterate(heap, p) = iterate(heap, NilAddr)
            /\ tail(heap, p) = tail(heap, NilAddr)
            /\ toString(heap, p) = toString(heap, NilAddr)
            /\ \A x \in Handles(heap) :
                   /\ equals(heap, p, x) = equals(heap, NilAddr, x)
                   /\ contains(heap, p, x) = contains(heap, NilAddr, x)

\* C24: for every pair node r, the node n = cons(nil, r) is non-empty:
\* n.isCons() is true, n.isNil() is false, n.length is 1 + r.length (failing
\* where r.length fails), n.item(0) is nil itself and n.equals(nil) is
\* false.
C24_NilHeadIsNonEmpty ==
    (ret.op = "cons" /\ ret.out.ok /\ ret.args[1] = NilAddr) =>
        LET n == ret.out.v
            r == ret.args[2]
            lr == length(heap, r)
        IN  /\ isCons(heap, n) = TRUE
            /\ isNil(heap, n) = FALSE
            /\ is_cons(heap, n) = TRUE
            /\ length(heap, n) = (IF lr.ok THEN Ok(1 + lr.v) ELSE lr)
            /\ item(heap, n, 0) = Ok(NilAddr)
            /\ equals(heap, n, NilAddr) = Ok(FALSE)
            /\ equals(heap, NilAddr, n) = Ok(FALSE)

\* cons(nil, r) was called with a chain r of one element: the result has
\* length 2.
C24_Witness ==
    /\ ret.op = "cons"
    /\ ret.out.ok
    /\ ret.args[1] = NilAddr
    /\ length(heap, ret.args[2]) = Ok(1)
    /\ length(heap, ret.out.v) = Ok(2)
    /\ item(heap, ret.out.v, 0) = Ok(NilAddr)

====
